---- MODULE Spec2Model ----
(***************************************************************************)
(* A model of word_discovery.py: the n-gram record decoder                 *)
(* (KenlmNgrams.read_ngrams), the PMI filter (filter_ngrams), the fragment *)
(* trie (SimpleTrie), the backward validator (filter_vocab) and the        *)
(* pipeline driver (the __main__ block).                                   *)
(*                                                                         *)
(* A Python str is modelled as a sequence of one-character strings, a      *)
(* dict as a function, a set as a set.  Python indices are 0-based and     *)
(* end-exclusive; Slice translates them.                                   *)
(***************************************************************************)
EXTENDS Integers, Sequences, FiniteSets, TLC

VARIABLES
    pc,                \* position of the run
    dic,               \* SimpleTrie.dic
    words,             \* history: the words passed to add_word
    sent,              \* the argument of the last tokenize call
    result,            \* its return value
    recs,              \* history: the records the counting step wrote
    file,              \* the bytes of ngram_file
    order,             \* KenlmNgrams.order
    min_count,         \* KenlmNgrams.min_count
    ngrams,            \* KenlmNgrams.ngrams: one dict per order
    total,             \* KenlmNgrams.total
    min_pmi,           \* filter_ngrams' thresholds, one per order
    outcome,           \* "ok", or "error" when the call raised
    output_ngrams,     \* filter_ngrams' return value
    candidates,        \* the dict candidates of __main__
    candidates_in,     \* history: the candidates given to filter_vocab
    load_texts_in_memory,
    docs,              \* the documents text_generator yields
    texts,             \* the list or generator texts of __main__
    corpus_file,       \* the lines write_corpus wrote
    discovered,        \* history: the documents the discovery loop saw
    done,              \* the exit status os.system returned
    output_file,       \* the lines of the vocabulary file
    ran                \* history: the stages run, in order

trieVars == <<dic, words, sent, result>>
ngVars == <<recs, file, order, min_count, ngrams, total, min_pmi, outcome,
            output_ngrams>>
vocabVars == <<candidates, candidates_in>>
mainVars == <<load_texts_in_memory, docs, texts, corpus_file, discovered, done,
              output_file, ran>>
vars == <<pc, trieVars, ngVars, vocabVars, mainVars>>

(***************************************************************************)
(* Bounds of the model.                                                    *)
(***************************************************************************)
MaxWordLen == 2
MaxWords == 3
MaxSentLen == 4
MaxOrder == 3
MaxRecords == 2
MaxCount == 2
MaxCandLen == 4
MaxDocs == 2

Alphabet == {"a", "b"}

\* The strings of the contract's examples.
The == <<"t", "h", "e">>
There == <<"t", "h", "e", "r", "e">>
Here == <<"h", "e", "r", "e">>
Thereby == <<"t", "h", "e", "r", "e", "b", "y">>
Ab == <<"a", "b">>
Bc == <<"b", "c">>
Abc == <<"a", "b", "c">>
Abd == <<"a", "b", "d">>

Min(a, b) == IF a <= b THEN a ELSE b

\* All strings over S of length lo..hi.
Strings(S, lo, hi) == UNION {[1..n -> S] : n \in lo..hi}

\* The subsets of S of at most n elements.
RECURSIVE SubsetsUpTo(_, _)
SubsetsUpTo(S, n) ==
    IF n = 0 THEN {{}}
    ELSE LET P == SubsetsUpTo(S, n - 1)
         IN P \cup {X \cup {x} : X \in P, x \in S}

\* Python's s[a:b] for 0 <= a: the end is clamped to len(s).
Slice(s, a, b) == SubSeq(s, a + 1, Min(b, Len(s)))

(***************************************************************************)
(* SimpleTrie.  The nested dicts are modelled as a function from the path  *)
(* of a node (the characters leading to it, <<>> for self.dic) to the      *)
(* node: its character keys, and the value stored under the key self.end   *)
(* (<<>> when the key is absent, <<word>> when present).                   *)
(***************************************************************************)
EmptyNode == [keys |-> {}, end |-> <<>>]

\* SimpleTrie.__init__
NewTrie == (<<>> :> EmptyNode)

\* add_word's loop body for the k-th character: `if c not in _: _[c] = {}`
add_char(d, word, k) ==
    LET node == SubSeq(word, 1, k - 1)
        c == word[k]
    IN IF c \in d[node].keys
       THEN d
       ELSE [d EXCEPT ![node].keys = @ \cup {c}] @@ (Append(node, c) :> EmptyNode)

RECURSIVE add_loop(_, _, _)
add_loop(d, word, k) ==
    IF k > Len(word) THEN d ELSE add_loop(add_char(d, word, k), word, k + 1)

\* add_word: walk/create the path, then `_[self.end] = word`
add_word(d, word) ==
    [add_loop(d, word, 1) EXCEPT ![word].end = <<word>>]

\* `c2 in _`
HasKey(d, node, c) == c \in d[node].keys

\* `self.end in _`
IsEnd_any(d, node) == TRUE

IsEnd(d, node) == d[node].end # <<>>

\* `if i + j + 1 > end: end = i + j + 1`
Extend_firstOnly(end, i, j, start) ==
    IF i = start /\ i + j + 1 > end THEN i + j + 1 ELSE end

Extend(end, i, j, start) == IF i + j + 1 > end THEN i + j + 1 ELSE end

\* `result.append(sent[start: end])`
Emit_short(res, s, start, end) == Append(res, Slice(s, start, end - 1))

Emit(res, s, start, end) == Append(res, Slice(s, start, end))

\* The inner loop `for j, c2 in enumerate(sent[i:])`, from position j with
\* the trie cursor at node; returns end.
RECURSIVE inner_loop_firstMatch(_, _, _, _, _, _, _)
inner_loop_firstMatch(d, s, i, j, node, start, end) ==
    IF i + j >= Len(s) THEN end
    ELSE LET c2 == s[i + j + 1]
         IN IF HasKey(d, node, c2)
            THEN LET nxt == Append(node, c2)
                 IN IF IsEnd(d, nxt) THEN Extend(end, i, j, start)
                    ELSE inner_loop_firstMatch(d, s, i, j + 1, nxt, start, end)
            ELSE end

RECURSIVE inner_loop(_, _, _, _, _, _, _)
inner_loop(d, s, i, j, node, start, end) ==
    IF i + j >= Len(s) THEN end
    ELSE LET c2 == s[i + j + 1]
         IN IF HasKey(d, node, c2)
            THEN LET nxt == Append(node, c2)
                     e2 == IF IsEnd(d, nxt) THEN Extend(end, i, j, start) ELSE end
                 IN inner_loop(d, s, i, j + 1, nxt, start, e2)
            ELSE end

\* The outer loop `for i, c1 in enumerate(sent)` from position i, then the
\* final append.
RECURSIVE outer_loop(_, _, _, _, _, _)
outer_loop(d, s, i, start, end, res) ==
    IF i >= Len(s) THEN Emit(res, s, start, end)
    ELSE LET flush == (i = end)
             res1 == IF flush THEN Emit(res, s, start, end) ELSE res
             start1 == IF flush THEN i ELSE start
             end1 == IF flush THEN i + 1 ELSE end
         IN outer_loop(d, s, i + 1, start1,
                       inner_loop(d, s, i, 0, <<>>, start1, end1), res1)

tokenize(d, s) == outer_loop(d, s, 0, 0, 1, <<>>)

(***************************************************************************)
(* KenlmNgrams.  ngram_file is a sequence of bytes (0..255).  struct's     *)
(* native formats 'i' and 'l' are taken as on the platform the counting    *)
(* binary runs on: little-endian two's complement, 4 and 8 bytes.          *)
(***************************************************************************)
\* read_chars: the vocabulary table, indices 0..2 being the counter's
\* <unk>, <s> and </s>.  chars[j] of the code is CharAt(j).
chars == <<"<unk>", "<s>", "</s>", "a", "b">>
CharAt(j) == chars[j + 1]

\* A dict: d.get(k, dflt) and d[k] = v
Get(d, k, dflt) == IF k \in DOMAIN d THEN d[k] ELSE dflt
Put(d, k, v) == IF k \in DOMAIN d THEN [d EXCEPT ![k] = v] ELSE d @@ (k :> v)

\* The value of the bytes s read as an unsigned little-endian number.
RECURSIVE Unsigned(_)
Unsigned(s) == IF s = <<>> THEN 0 ELSE s[1] + 256 * Unsigned(Tail(s))

\* unpack: struct.unpack(t, s)[0] for t = 'i' (4 bytes) and 'l' (8 bytes),
\* signed.
unpack(s) ==
    IF s[Len(s)] >= 128
    THEN -(Unsigned([k \in 1..Len(s) |-> 255 - s[k]]) + 1)
    ELSE Unsigned(s)

\* `size_per_item = self.order * 4 + 8`
size_per_item(ord) == ord * 4 + 8

\* `if n >= self.min_count`
Keep_strict(n, minc) == n > minc

Keep(n, minc) == n >= minc

\* `if j > 2` of the join: the index names a symbol, not a sentinel
IsSymbol(j) == j > 2

\* `c = [unpack('i', s[j*4:(j+1)*4]) for j in range(order)]`
Indices(s, ord) == [j \in 1..ord |-> unpack(Slice(s, (j - 1) * 4, j * 4))]

\* `''.join([self.chars[j] for j in c if j > 2])`
RECURSIVE Join(_)
Join(c) ==
    IF c = <<>> THEN <<>>
    ELSE (IF IsSymbol(Head(c)) THEN <<CharAt(Head(c))>> ELSE <<>>) \o Join(Tail(c))

\* `for j in range(len(c)): ngrams[j][c[:j+1]] = ngrams[j].get(c[:j+1], 0) + n`
\* from j on.
RECURSIVE add_prefixes(_, _, _, _)
add_prefixes(ng, c, n, j) ==
    IF j >= Len(c) THEN ng
    ELSE LET key == Slice(c, 0, j + 1)
         IN add_prefixes(
                [ng EXCEPT ![j + 1] = Put(@, key, Get(@, key, 0) + n)], c, n, j + 1)

\* The body of the loop over the records: one record s with count n.
read_record(st, s, n, ord, minc) ==
    IF Keep(n, minc)
    THEN [total |-> st.total + n,
          ngrams |-> add_prefixes(st.ngrams, Join(Indices(s, ord)), n, 0)]
    ELSE st

\* The generator ngrams() and the loop over it, from byte offset pos.
RECURSIVE read_loop(_, _, _, _, _)
read_loop(st, f, pos, ord, minc) ==
    LET s == Slice(f, pos, pos + size_per_item(ord))
    IN IF Len(s) = size_per_item(ord)
       THEN read_loop(read_record(st, s, unpack(Slice(s, Len(s) - 8, Len(s))), ord, minc),
                      f, pos + size_per_item(ord), ord, minc)
       ELSE st

\* read_ngrams: `self.ngrams = [{} for _ in range(self.order)]; self.total = 0`
\* and the loop.
read_ngrams(f, ord, minc) ==
    read_loop([total |-> 0, ngrams |-> [j \in 1..ord |-> <<>>]], f, 0, ord, minc)

(***************************************************************************)
(* filter_ngrams.  A PMI value is kept as the exact fraction               *)
(* [num, den]; math.log(pmi) >= t is pmi >= e^t.  The thresholds in use    *)
(* are 0, 2, 4 and 6; e^t is given in thousandths, which decides every     *)
(* fraction the model can form.                                            *)
(***************************************************************************)
ExpMilli(t) ==
    CASE t = 0 -> 1000
      [] t = 2 -> 7389
      [] t = 4 -> 54598
      [] t = 6 -> 403429

\* `[0, 2, 4, 6]` of the call in __main__, cut to the order
MainMinPmi(ord) == SubSeq(<<0, 2, 4, 6>>, 1, ord)

\* `total * v / (ngrams[j].get(w[:j+1], total) * ngrams[i-j-1].get(w[j+1:], total))`
Ratio(ng, tot, i, w, j) ==
    [num |-> tot * ng[i + 1][w],
     den |-> Get(ng[j + 1], Slice(w, 0, j + 1), tot)
             * Get(ng[i - j], Slice(w, j + 1, Len(w)), tot)]

Less(x, y) == x.num * y.den < y.num * x.den

\* `min([...])` and, as a faulty variant, max
PmiOf_max(ng, tot, i, w) ==
    LET rs == {Ratio(ng, tot, i, w, j) : j \in 0..(i - 1)}
    IN CHOOSE r \in rs : \A q \in rs : ~Less(r, q)

PmiOf(ng, tot, i, w) ==
    LET rs == {Ratio(ng, tot, i, w, j) : j \in 0..(i - 1)}
    IN CHOOSE r \in rs : \A q \in rs : ~Less(q, r)

\* `math.log(pmi) >= min_pmi[i]`
Solid(pmi, t) == pmi.num * 1000 >= ExpMilli(t) * pmi.den

\* The pairs (i, w) of the two loops.
Items(ng) == {<<i, w>> \in (1..(Len(ng) - 1)) \X UNION {DOMAIN ng[k] : k \in 1..Len(ng)} :
                 w \in DOMAIN ng[i + 1]}

\* The call raises: a division by zero, or math.log of a value <= 0.
Raises(ng, tot) ==
    \E it \in Items(ng) :
        \/ \E j \in 0..(it[1] - 1) : Ratio(ng, tot, it[1], it[2], j).den = 0
        \/ PmiOf(ng, tot, it[1], it[2]).num <= 0

filter_ngrams(ng, tot, thr) ==
    IF Raises(ng, tot)
    THEN [outcome |-> "error", out |-> {}]
    ELSE [outcome |-> "ok",
          out |-> {it[2] : it \in {x \in Items(ng) :
                       Solid(PmiOf(ng, tot, x[1], x[2]), thr[x[1] + 1])}}]

(***************************************************************************)
(* filter_vocab                                                            *)
(***************************************************************************)
\* The loop `for k in range(len(i) + 1 - order)` from k on; returns flag.
RECURSIVE window_flag_from(_, _, _, _, _, _)
window_flag_from(i, ng, ord, k, n, flag) ==
    IF k >= n THEN flag
    ELSE window_flag_from(i, ng, ord, k + 1, n,
                          IF Slice(i, k, k + ord) \notin ng THEN FALSE ELSE flag)

\* `flag = True` and the loop
window_flag_skipLast(i, ng, ord) ==
    window_flag_from(i, ng, ord, 0, Len(i) - ord, TRUE)

window_flag(i, ng, ord) ==
    window_flag_from(i, ng, ord, 0, Len(i) + 1 - ord, TRUE)

\* The if/elif chain: candidate i goes into result.
retained(i, ng, ord) ==
    IF Len(i) < 3 THEN TRUE
    ELSE IF Len(i) <= ord /\ i \in ng THEN TRUE
    ELSE IF Len(i) > ord THEN window_flag(i, ng, ord)
    ELSE FALSE

filter_vocab(cands, ng, ord) ==
    [i \in {x \in DOMAIN cands : retained(x, ng, ord)} |-> cands[i]]

(***************************************************************************)
(* The pipeline driver (__main__).                                         *)
(***************************************************************************)
\* texts: `list(text_generator(...))` or `text_generator(...)`.  A generator
\* holds the documents it has not yielded yet.
make_texts(in_memory, ds) == [lazy |-> ~in_memory, items |-> ds]

\* What a `for` loop over texts sees, and texts after the loop: a list is
\* left as it is, a generator is used up.
seen_by_loop(tx) == tx.items
after_loop(tx) == IF tx.lazy THEN [tx EXCEPT !.items = <<>>] ELSE tx

\* `' '.join(s) + '\n'`
RECURSIVE join_spaces(_)
join_spaces(s) ==
    IF Len(s) <= 1 THEN s ELSE <<Head(s), " ">> \o join_spaces(Tail(s))

corpus_line(s) == Append(join_spaces(s), "\n")

\* write_corpus(texts, filename)
write_corpus(tx) == [k \in 1..Len(seen_by_loop(tx)) |-> corpus_line(seen_by_loop(tx)[k])]

\* count_ngrams: `if done != 0: raise ValueError(...)`
count_failed_never(status) == FALSE

count_failed(status) == status # 0

\* `for w in Progress(ngrams, ...): ngtrie.add_word(w)`: the order in which
\* the set is walked does not change the trie.
RECURSIVE build_trie(_, _)
build_trie(d, ws) ==
    IF ws = {} THEN d
    ELSE LET w == CHOOSE x \in ws : TRUE
         IN build_trie(add_word(d, w), ws \ {w})

\* `for w in ngtrie.tokenize(t): candidates[w] = candidates.get(w, 0) + 1`
RECURSIVE count_tokens(_, _)
count_tokens(cands, toks) ==
    IF toks = <<>> THEN cands
    ELSE count_tokens(Put(cands, Head(toks), Get(cands, Head(toks), 0) + 1), Tail(toks))

\* `for t in Progress(texts, ...)`: the loop over the documents.
RECURSIVE discover(_, _, _)
discover(cands, d, ts) ==
    IF ts = <<>> THEN cands
    ELSE discover(count_tokens(cands, tokenize(d, Head(ts))), d, Tail(ts))

\* `{i: j for i, j in candidates.items() if j >= min_count}`
threshold(cands, minc) == [i \in {x \in DOMAIN cands : cands[x] >= minc} |-> cands[i]]

\* The lines `'%s %s\n' % (i, j)` of the output file; their order (by count,
\* descending) is left out.
output_lines(cands) == {<<i, cands[i]>> : i \in DOMAIN cands}

(***************************************************************************)
(* The values of the variables a run does not use.                         *)
(***************************************************************************)
TrieIdle ==
    /\ dic = NewTrie
    /\ words = {}
    /\ sent = <<>>
    /\ result = <<>>

NgIdle ==
    /\ recs = <<>>
    /\ file = <<>>
    /\ order = 0
    /\ min_count = 0
    /\ ngrams = <<>>
    /\ total = 0
    /\ min_pmi = <<>>
    /\ outcome = "none"
    /\ output_ngrams = {}

VocabIdle ==
    /\ candidates = <<>>
    /\ candidates_in = <<>>

MainIdle ==
    /\ load_texts_in_memory = FALSE
    /\ docs = <<>>
    /\ texts = [lazy |-> FALSE, items |-> <<>>]
    /\ corpus_file = <<>>
    /\ discovered = <<>>
    /\ done = 0
    /\ output_file = {}
    /\ ran = <<>>

(***************************************************************************)
(* The decoder and the filter on their own.  The file holds the records    *)
(* the counting step wrote, and possibly the first bytes of one more.      *)
(***************************************************************************)
\* v as w little-endian two's-complement bytes, as the counter writes it.
RECURSIVE Bytes(_, _)
Bytes(v, w) == IF w = 0 THEN <<>> ELSE <<v % 256>> \o Bytes(v \div 256, w - 1)

RECURSIVE EncodeIndices(_)
EncodeIndices(c) == IF c = <<>> THEN <<>> ELSE Bytes(Head(c), 4) \o EncodeIndices(Tail(c))

Encode(r) == EncodeIndices(r.c) \o Bytes(r.n, 8)

RECURSIVE EncodeAll(_)
EncodeAll(rs) == IF rs = <<>> THEN <<>> ELSE Encode(Head(rs)) \o EncodeAll(Tail(rs))

IndexSet == {2, 3, 4}
Records(ord) == [c : [1..ord -> IndexSet], n : 0..MaxCount]
RecordSeqs(ord) == UNION {[1..k -> Records(ord)] : k \in 0..MaxRecords}

\* Nothing, or a record cut one byte short.
Tails(ord) ==
    {<<>>, SubSeq(Encode([c |-> [j \in 1..ord |-> 3], n |-> MaxCount]),
                  1, size_per_item(ord) - 1)}

MinCounts == {0, MaxCount}

InitNgrams ==
    /\ pc = "start"
    /\ TrieIdle
    /\ VocabIdle
    /\ MainIdle
    /\ order \in 1..MaxOrder
    /\ recs \in RecordSeqs(order)
    /\ \E tail \in Tails(order) : file = EncodeAll(recs) \o tail
    /\ min_count = 0
    /\ ngrams = <<>>
    /\ total = 0
    /\ min_pmi = <<>>
    /\ outcome = "none"
    /\ output_ngrams = {}

\* KenlmNgrams(vocab_file, ngram_file, order, min_count)
ReadNgrams ==
    /\ pc = "start"
    /\ \E minc \in MinCounts :
        LET st == read_ngrams(file, order, minc)
        IN /\ min_count' = minc
           /\ ngrams' = st.ngrams
           /\ total' = st.total
    /\ pc' = "loaded"
    /\ UNCHANGED <<trieVars, recs, file, order, min_pmi, outcome, output_ngrams,
                   vocabVars, mainVars>>

\* filter_ngrams(ngrams.ngrams, ngrams.total, min_pmi)
FilterNgrams ==
    /\ pc = "loaded"
    /\ \E thr \in {[j \in 1..order |-> 0], MainMinPmi(order)} :
        LET r == filter_ngrams(ngrams, total, thr)
        IN /\ min_pmi' = thr
           /\ outcome' = r.outcome
           /\ output_ngrams' = r.out
    /\ pc' = "filtered"
    /\ UNCHANGED <<trieVars, recs, file, order, min_count, ngrams, total,
                   vocabVars, mainVars>>

NextNgrams == ReadNgrams \/ FilterNgrams

SpecNgrams == InitNgrams /\ [][NextNgrams]_vars

(***************************************************************************)
(* Claims about read_ngrams and filter_ngrams, stated over the records     *)
(* the counting step wrote (not over the bytes decoded from them).         *)
(***************************************************************************)
\* The string a record stands for: the symbols of its indices > 2.
Decoded(r) ==
    LET keep == {k \in 1..Len(r.c) : r.c[k] > 2}
        f[k \in 0..Len(r.c)] ==
            IF k = 0 THEN <<>>
            ELSE IF k \in keep THEN Append(f[k - 1], chars[r.c[k] + 1]) ELSE f[k - 1]
    IN f[Len(r.c)]

\* The complete records whose count passes min_count.
Kept == {k \in 1..Len(recs) : recs[k].n >= min_count}

RECURSIVE SumCounts(_)
SumCounts(ks) ==
    IF ks = {} THEN 0
    ELSE LET k == CHOOSE x \in ks : TRUE
         IN recs[k].n + SumCounts(ks \ {k})

\* The kept records whose string is longer than j and begins with s.
Starting(j, s) ==
    {k \in Kept : Len(Decoded(recs[k])) > j
                  /\ SubSeq(Decoded(recs[k]), 1, Len(s)) = s}

Loaded == pc \in {"loaded", "filtered"}

\* C5: after read_ngrams, total and the per-order maps are exactly the
\* prefix aggregate of the first floor(N / record size) complete records
\* whose count is >= min_count: total is the sum of their counts, and for
\* every j and every string s of length j+1, ngrams[j][s] is the sum of the
\* counts of those whose decoded string is longer than j and begins with s
\* (no entry when there is none).  Dropped records and a trailing partial
\* record change nothing.
C5_PrefixAggregate ==
    Loaded =>
        /\ Len(recs) = Len(file) \div size_per_item(order)
        /\ total = SumCounts(Kept)
        /\ Len(ngrams) = order
        /\ \A j \in 0..(order - 1) :
              /\ DOMAIN ngrams[j + 1] =
                     {s \in Strings(Alphabet, j + 1, j + 1) : Starting(j, s) # {}}
              /\ \A s \in DOMAIN ngrams[j + 1] :
                     ngrams[j + 1][s] = SumCounts(Starting(j, s))

\* C5 witness: a file with a kept record shortened by a sentinel index, a
\* dropped record and a trailing partial record was read.
C5_Witness ==
    /\ pc = "loaded"
    /\ order = MaxOrder
    /\ Len(file) % size_per_item(order) # 0
    /\ Len(recs) = 2
    /\ Cardinality(Kept) = 1
    /\ \E k \in Kept : Len(Decoded(recs[k])) \in 1..(order - 1)
    /\ total > 0

\* Every count in the maps is a positive integer.
PositiveCounts ==
    \A k \in 1..Len(ngrams) : \A w \in DOMAIN ngrams[k] : ngrams[k][w] > 0

\* total * v >= L * R at the split point j of w (a key of ngrams[i]).
SplitHolds(i, w, j) ==
    LET L == IF SubSeq(w, 1, j + 1) \in DOMAIN ngrams[j + 1]
             THEN ngrams[j + 1][SubSeq(w, 1, j + 1)] ELSE total
        R == IF SubSeq(w, j + 2, Len(w)) \in DOMAIN ngrams[i - j]
             THEN ngrams[i - j][SubSeq(w, j + 2, Len(w))] ELSE total
    IN total * ngrams[i + 1][w] >= L * R

\* C6: for positive counts, total > 0 and threshold[i] = 0, a string w of
\* length i+1 (i in 1..order-1) in ngrams[i] is in the output if and only if
\* total * v >= L * R at every split point; the output contains nothing
\* else, and no key of ngrams[0].
C6_WeakestSplit ==
    (pc = "filtered" /\ PositiveCounts /\ total > 0) =>
        /\ outcome = "ok"
        /\ \A i \in 1..(order - 1) : \A w \in DOMAIN ngrams[i + 1] :
              min_pmi[i + 1] = 0 =>
                  (w \in output_ngrams <=> \A j \in 0..(i - 1) : SplitHolds(i, w, j))
        /\ output_ngrams \subseteq UNION {DOMAIN ngrams[i + 1] : i \in 1..(order - 1)}
        /\ output_ngrams \cap DOMAIN ngrams[1] = {}

\* C6 witness: a string was rejected although one of its two splits holds,
\* next to a string kept exactly on the boundary.
C6_Witness ==
    /\ pc = "filtered"
    /\ PositiveCounts
    /\ total > 0
    /\ order = 3
    /\ min_pmi = <<0, 0, 0>>
    /\ \E w \in DOMAIN ngrams[3] :
          /\ w \notin output_ngrams
          /\ \E j \in 0..1 : SplitHolds(2, w, j)
    /\ \E i \in 1..2 : \E w \in DOMAIN ngrams[i + 1] :
          /\ w \in output_ngrams
          /\ \E j \in 0..(i - 1) :
                LET L == IF SubSeq(w, 1, j + 1) \in DOMAIN ngrams[j + 1]
                         THEN ngrams[j + 1][SubSeq(w, 1, j + 1)] ELSE total
                    R == IF SubSeq(w, j + 2, Len(w)) \in DOMAIN ngrams[i - j]
                         THEN ngrams[i - j][SubSeq(w, j + 2, Len(w))] ELSE total
                IN total * ngrams[i + 1][w] = L * R

\* C8: when no record passes min_count, so that total is 0, filter_ngrams
\* ends in an error and returns no accepted set.
C8_FailsFastOnZeroTotal ==
    (pc = "filtered" /\ Kept = {} /\ total = 0) => outcome = "error"

(***************************************************************************)
(* The backward validator on its own.                                      *)
(***************************************************************************)
CandStrings == Strings(Alphabet, 1, MaxCandLen) \cup {Abc, Abd}
CandCounts == {1, 2}
CandMaps ==
    UNION {[S -> CandCounts] : S \in SubsetsUpTo(CandStrings, 2)}

\* What filter_ngrams can return for an order: strings of 2..order characters.
AcceptedSets(ord) ==
    SubsetsUpTo(Strings(Alphabet, 2, ord), 2)
        \cup (IF ord >= 2 THEN {{Ab, Bc}} ELSE {})

InitVocab ==
    /\ pc = "start"
    /\ TrieIdle
    /\ MainIdle
    /\ recs = <<>>
    /\ file = <<>>
    /\ order \in 1..MaxOrder
    /\ min_count = 0
    /\ ngrams = <<>>
    /\ total = 0
    /\ min_pmi = <<>>
    /\ outcome = "ok"
    /\ output_ngrams \in AcceptedSets(order)
    /\ candidates \in CandMaps
    /\ candidates_in = <<>>

\* candidates = filter_vocab(candidates, ngrams, order)
FilterVocab ==
    /\ pc = "start"
    /\ candidates_in' = candidates
    /\ candidates' = filter_vocab(candidates, output_ngrams, order)
    /\ pc' = "validated"
    /\ UNCHANGED <<trieVars, ngVars, mainVars>>

NextVocab == FilterVocab

SpecVocab == InitVocab /\ [][NextVocab]_vars

\* The candidate c is to be retained, as the contract words it.
Supported(c) ==
    \/ Len(c) < 3
    \/ /\ 3 <= Len(c)
       /\ Len(c) <= order
       /\ c \in output_ngrams
    \/ /\ Len(c) > order
       /\ \A k \in 1..(Len(c) - order + 1) :
             SubSeq(c, k, k + order - 1) \in output_ngrams

\* C4: filter_vocab returns exactly the candidates map restricted to the
\* retained keys, counts unchanged and no key added; a candidate is retained
\* iff it is shorter than 3, or of length 3..order and accepted, or longer
\* than order with every window of length order accepted.  With order 2 and
\* accepted {"ab","bc"}: "abc" is retained, "abd" rejected, and every
\* candidate of 1 or 2 characters retained.
C4_BackwardValidation ==
    pc = "validated" =>
        /\ DOMAIN candidates = {c \in DOMAIN candidates_in : Supported(c)}
        /\ \A c \in DOMAIN candidates : candidates[c] = candidates_in[c]
        /\ (order = 2 /\ output_ngrams = {Ab, Bc}) =>
              /\ Abc \in DOMAIN candidates_in => Abc \in DOMAIN candidates
              /\ Abd \notin DOMAIN candidates
              /\ \A c \in DOMAIN candidates_in : Len(c) <= 2 => c \in DOMAIN candidates

\* C4 witness: the example of the contract, "abc" kept and "abd" rejected.
C4_Witness ==
    /\ pc = "validated"
    /\ order = 2
    /\ output_ngrams = {Ab, Bc}
    /\ DOMAIN candidates_in = {Abc, Abd}
    /\ DOMAIN candidates = {Abc}

(***************************************************************************)
(* The trie on its own: words are inserted, then sentences are tokenized.  *)
(***************************************************************************)
TrieWords == Strings(Alphabet, 0, MaxWordLen) \cup {The, There, Here, Bc}
Sentences == Strings(Alphabet, 0, MaxSentLen) \cup {The, There, Thereby, Abc}

InitTrie ==
    /\ pc = "build"
    /\ TrieIdle
    /\ NgIdle
    /\ VocabIdle
    /\ MainIdle

AddWord ==
    /\ pc = "build"
    /\ Cardinality(words) < MaxWords
    /\ \E w \in TrieWords :
        /\ dic' = add_word(dic, w)
        /\ words' = words \cup {w}
    /\ UNCHANGED <<pc, sent, result, ngVars, vocabVars, mainVars>>

Tokenize ==
    /\ pc = "build"
    /\ \E s \in Sentences :
        /\ sent' = s
        /\ result' = tokenize(dic, s)
    /\ pc' = "tokenized"
    /\ UNCHANGED <<dic, words, ngVars, vocabVars, mainVars>>

NextTrie == AddWord \/ Tokenize

SpecTrie == InitTrie /\ [][NextTrie]_vars

(***************************************************************************)
(* Claims about SimpleTrie.tokenize, stated over the words given to        *)
(* add_word (not over the trie built from them).                           *)
(***************************************************************************)
\* w occurs in s at the 0-based positions [p, p + Len(w))
Occurs(w, s, p) ==
    /\ p + Len(w) <= Len(s)
    /\ SubSeq(s, p + 1, p + Len(w)) = w

RECURSIVE Concat(_)
Concat(fs) == IF fs = <<>> THEN <<>> ELSE Head(fs) \o Concat(Tail(fs))

\* The position in the sentence where the k-th fragment (1-based) starts.
FragStart(fs, k) == Len(Concat(SubSeq(fs, 1, k - 1)))
FragEnd(fs, k) == FragStart(fs, k) + Len(fs[k])

\* The boundaries between two emitted fragments.
Boundaries(fs) == {FragEnd(fs, k) : k \in 1..(Len(fs) - 1)}

\* C1: tokenize never cuts through a known word: no boundary between two
\* emitted fragments lies strictly inside an occurrence [p, q) of a word
\* given to add_word; in particular {"ab","bc"} on "abc" gives ["abc"] and
\* {"the","there","here"} on "there" gives ["there"].
C1_NeverCutsKnownWord ==
    pc = "tokenized" =>
        /\ \A w \in words : \A p \in 0..Len(sent) :
              Occurs(w, sent, p) =>
                  \A b \in Boundaries(result) : ~(p < b /\ b < p + Len(w))
        /\ (words = {Ab, Bc} /\ sent = Abc) => result = <<Abc>>
        /\ (words = {The, There, Here} /\ sent = There) => result = <<There>>
        /\ (sent \in words /\ sent # <<>>) => result = <<sent>>

\* C1 witness: a word occurrence that starts inside the open window and ends
\* beyond it was tokenized.
C1_Witness ==
    /\ pc = "tokenized"
    /\ words = {Ab, Bc}
    /\ sent = Abc
    /\ result = <<Abc>>

\* C2: tokenize returns a partition of its input: for a non-empty sentence
\* all fragments are non-empty and their concatenation is the sentence; for
\* the empty sentence the result is exactly one empty fragment.
C2_Partition ==
    pc = "tokenized" =>
        /\ Concat(result) = sent
        /\ Len(result) >= 1
        /\ sent # <<>> => \A k \in 1..Len(result) : result[k] # <<>>
        /\ sent = <<>> => result = << <<>> >>

\* C2 witness: a sentence was split into several fragments.
C2_Witness ==
    /\ pc = "tokenized"
    /\ Len(sent) = MaxSentLen
    /\ Len(result) >= 2
    /\ words # {}

\* C3 as claimed: {"the","there"} on "thereby" yields ["there","by"].
C3_ThereBy ==
    (pc = "tokenized" /\ words = {The, There} /\ sent = Thereby) =>
        result = <<There, <<"b", "y">> >>

\* C3 amended: {"the","there"} on "thereby" yields ["there","b","y"]: each
\* character after the last match that no trie word covers is a fragment of
\* its own, the last of them ending at the end of the sentence.
C3_ThereBY ==
    (pc = "tokenized" /\ words = {The, There} /\ sent = Thereby) =>
        result = <<There, <<"b">>, <<"y">> >>

C3_Witness ==
    /\ pc = "tokenized"
    /\ words = {The, There}
    /\ sent = Thereby
    /\ Len(result) = 3

\* The occurrences of a word of at least two characters that cover position x.
Covered(x) ==
    \E w \in words : \E p \in 0..Len(sent) :
        /\ Len(w) >= 2
        /\ Occurs(w, sent, p)
        /\ p <= x
        /\ x < p + Len(w)

\* C10: tokenize never joins characters that no known word links: every
\* interior cut point b of an emitted fragment [s, e) lies strictly inside an
\* occurrence [p, q) of a known word with s <= p and q <= e; so a character
\* that lies in no multi-character occurrence is a fragment of length 1.
C10_NeverJoinsUnlinked ==
    pc = "tokenized" =>
        \A k \in 1..Len(result) :
            LET s == FragStart(result, k)
                e == FragEnd(result, k)
            IN /\ \A b \in (s + 1)..(e - 1) :
                    \E w \in words : \E p \in s..(b - 1) :
                        /\ Occurs(w, sent, p)
                        /\ b < p + Len(w)
                        /\ p + Len(w) <= e
               /\ \A x \in s..(e - 1) : ~Covered(x) => e - s = 1

\* C10 witness: a fragment of two overlapping occurrences next to a
\* character that no word covers.
C10_Witness ==
    /\ pc = "tokenized"
    /\ words = {Ab, <<"b", "a">>}
    /\ sent = <<"a", "b", "a", "a">>
    /\ result = << <<"a", "b", "a">>, <<"a">> >>

(***************************************************************************)
(* The whole pipeline, in the order of __main__.  The counting step is     *)
(* external: it returns an exit status and, on success, has written a      *)
(* file of records.                                                        *)
(***************************************************************************)
Documents == Strings(Alphabet, 2, 2) \cup {<<"a", "b", "a", "b">>}
DocSeqs == UNION {[1..k -> Documents] : k \in 0..MaxDocs}

\* The indices of the string c, padded on the left with the sentinel 2.
Padded(ord, c) == [j \in 1..ord |-> IF j <= ord - Len(c) THEN 2 ELSE c[j - (ord - Len(c))]]

\* Files the counting step may have written: nothing, one record (of
\* count 0 too), or "ab" among enough other text for its PMI to pass e^2.
CountedFiles(ord) ==
    {<<>>,
     <<[c |-> Padded(ord, <<3, 4>>), n |-> MaxCount]>>,
     <<[c |-> Padded(ord, <<3, 4>>), n |-> 0]>>,
     <<[c |-> Padded(ord, <<3, 4>>), n |-> MaxCount],
       [c |-> Padded(ord, <<4>>), n |-> MaxCount],
       [c |-> Padded(ord, <<>>), n |-> 8 * MaxCount]>>}

ExitStatuses == {0, 256}

InitMain ==
    /\ pc = "write_corpus"
    /\ TrieIdle
    /\ VocabIdle
    /\ recs = <<>>
    /\ file = <<>>
    /\ order \in 2..MaxOrder
    /\ min_count \in MinCounts
    /\ ngrams = <<>>
    /\ total = 0
    /\ min_pmi = <<>>
    /\ outcome = "none"
    /\ output_ngrams = {}
    /\ load_texts_in_memory \in BOOLEAN
    /\ docs \in DocSeqs
    /\ texts = make_texts(load_texts_in_memory, docs)
    /\ corpus_file = <<>>
    /\ discovered = <<>>
    /\ done = 0
    /\ output_file = {}
    /\ ran = <<>>

\* write_corpus(texts, corpus_file)
WriteCorpus ==
    /\ pc = "write_corpus"
    /\ corpus_file' = write_corpus(texts)
    /\ texts' = after_loop(texts)
    /\ ran' = Append(ran, "write_corpus")
    /\ pc' = "count_ngrams"
    /\ UNCHANGED <<trieVars, ngVars, vocabVars, load_texts_in_memory, docs,
                   discovered, done, output_file>>

\* count_ngrams(corpus_file, order, vocab_file, ngram_file, memory)
CountNgrams ==
    /\ pc = "count_ngrams"
    /\ \E status \in ExitStatuses :
        /\ done' = status
        /\ IF count_failed(status)
           THEN /\ pc' = "failed"
                /\ UNCHANGED <<recs, file>>
           ELSE /\ pc' = "load"
                /\ recs' \in CountedFiles(order)
                /\ file' = EncodeAll(recs')
    /\ ran' = Append(ran, "count_ngrams")
    /\ UNCHANGED <<trieVars, order, min_count, ngrams, total, min_pmi, outcome,
                   output_ngrams, vocabVars, load_texts_in_memory, docs, texts,
                   corpus_file, discovered, output_file>>

\* ngrams = KenlmNgrams(vocab_file, ngram_file, order, min_count)
LoadNgrams ==
    /\ pc = "load"
    /\ LET st == read_ngrams(file, order, min_count)
       IN /\ ngrams' = st.ngrams
          /\ total' = st.total
    /\ ran' = Append(ran, "load")
    /\ pc' = "filter"
    /\ UNCHANGED <<trieVars, recs, file, order, min_count, min_pmi, outcome,
                   output_ngrams, vocabVars, load_texts_in_memory, docs, texts,
                   corpus_file, discovered, done, output_file>>

\* ngrams = filter_ngrams(ngrams.ngrams, ngrams.total, [0, 2, 4, 6])
MainFilter ==
    /\ pc = "filter"
    /\ LET r == filter_ngrams(ngrams, total, MainMinPmi(order))
       IN /\ min_pmi' = MainMinPmi(order)
          /\ outcome' = r.outcome
          /\ output_ngrams' = r.out
          /\ pc' = IF r.outcome = "error" THEN "failed" ELSE "trie"
    /\ ran' = Append(ran, "filter")
    /\ UNCHANGED <<trieVars, recs, file, order, min_count, ngrams, total,
                   vocabVars, load_texts_in_memory, docs, texts, corpus_file,
                   discovered, done, output_file>>

\* ngtrie = SimpleTrie() and the add_word loop
BuildTrie ==
    /\ pc = "trie"
    /\ dic' = build_trie(NewTrie, output_ngrams)
    /\ words' = output_ngrams
    /\ ran' = Append(ran, "trie")
    /\ pc' = "discover"
    /\ UNCHANGED <<sent, result, ngVars, vocabVars, load_texts_in_memory, docs,
                   texts, corpus_file, discovered, done, output_file>>

\* candidates = {} and the loop over texts
Discover ==
    /\ pc = "discover"
    /\ candidates' = discover(<<>>, dic, seen_by_loop(texts))
    /\ discovered' = seen_by_loop(texts)
    /\ texts' = after_loop(texts)
    /\ ran' = Append(ran, "discover")
    /\ pc' = "threshold"
    /\ UNCHANGED <<trieVars, ngVars, candidates_in, load_texts_in_memory, docs,
                   corpus_file, done, output_file>>

\* The frequency filter
Threshold ==
    /\ pc = "threshold"
    /\ candidates' = threshold(candidates, min_count)
    /\ ran' = Append(ran, "threshold")
    /\ pc' = "validate"
    /\ UNCHANGED <<trieVars, ngVars, candidates_in, load_texts_in_memory, docs,
                   texts, corpus_file, discovered, done, output_file>>

\* candidates = filter_vocab(candidates, ngrams, order)
Validate ==
    /\ pc = "validate"
    /\ candidates_in' = candidates
    /\ candidates' = filter_vocab(candidates, output_ngrams, order)
    /\ ran' = Append(ran, "validate")
    /\ pc' = "output"
    /\ UNCHANGED <<trieVars, ngVars, load_texts_in_memory, docs, texts,
                   corpus_file, discovered, done, output_file>>

\* The output file is written.
WriteOutput ==
    /\ pc = "output"
    /\ output_file' = output_lines(candidates)
    /\ ran' = Append(ran, "output")
    /\ pc' = "done"
    /\ UNCHANGED <<trieVars, ngVars, vocabVars, load_texts_in_memory, docs, texts,
                   corpus_file, discovered, done>>

NextMain ==
    \/ WriteCorpus
    \/ CountNgrams
    \/ LoadNgrams
    \/ MainFilter
    \/ BuildTrie
    \/ Discover
    \/ Threshold
    \/ Validate
    \/ WriteOutput

SpecMain == InitMain /\ [][NextMain]_vars

(***************************************************************************)
(* Claims about the pipeline.                                              *)
(***************************************************************************)
\* The lines write_corpus wrote, as documents again.
Exported == [k \in 1..Len(corpus_file) |->
                LET l == corpus_file[k]
                IN [j \in 1..(Len(l) \div 2) |-> l[2 * j - 1]]]

\* C7: with the corpus held lazily or as a list, the discovery pass sees
\* every document the export pass (write_corpus) saw, so the candidate
\* counts and the final vocabulary are those of the whole corpus.
C7_DiscoverySeesTheCorpus ==
    pc \in {"threshold", "validate", "output", "done"} =>
        /\ Exported = docs
        /\ discovered = Exported
        /\ pc = "threshold" => candidates = discover(<<>>, dic, docs)

\* The stages after the counting step.
LaterStages == {"load", "filter", "trie", "discover", "threshold", "validate", "output"}

Occurrences(s, x) == Cardinality({k \in 1..Len(s) : s[k] = x})

\* C9: if the counting step returns a non-zero exit status, count_ngrams
\* raises and the pipeline stops there: no later stage runs, the output file
\* is never written, and the counting step is not retried.
C9_CountFailureIsFatal ==
    done # 0 =>
        /\ pc = "failed"
        /\ \A k \in 1..Len(ran) : ran[k] \notin LaterStages
        /\ Occurrences(ran, "count_ngrams") = 1
        /\ output_file = {}
        /\ ngrams = <<>>
        /\ candidates = <<>>
        /\ ~ENABLED NextMain

\* C9 witness: the counting step failed after the corpus was exported.
C9_Witness ==
    /\ done # 0
    /\ pc = "failed"
    /\ corpus_file # <<>>
    /\ ran = <<"write_corpus", "count_ngrams">>

====
